---------------------------- MODULE Spec2Model ----------------------------
(***************************************************************************)
(* Model of sherpa/bin/offline_transducer_asr.py: the argument validation  *)
(* of check_args, the bias-phrase preparation of main, the vocabulary load *)
(* of encode_contexts, the audio loading of read_sound_files, and the      *)
(* stream / decode / print sequence of main.                               *)
(*                                                                         *)
(* Strings whose characters matter (--contexts, --modeling-unit, the lines *)
(* of the token table) are sequences of Unicode code points; paths and     *)
(* method names are plain strings.                                         *)
(***************************************************************************)
EXTENDS Integers, Sequences, FiniteSets, TLC

VARIABLES args, pc, err, recognizer, opened, samples, contexts,
          contexts_list, streams, engine_order, stdout, log

vars == <<args, pc, err, recognizer, opened, samples, contexts,
          contexts_list, streams, engine_order, stdout, log>>

(***************************************************************************)
(* Bounds of the model.                                                    *)
(***************************************************************************)
\* longest enumerated --contexts string
MaxCtxLen == 3
\* largest number of positional sound files
MaxFiles == 3

(***************************************************************************)
(* argparse: an omitted option without default parses to None.             *)
(***************************************************************************)
NoneVal == "<None>"

(***************************************************************************)
(* The file system the run sees.  is_file is true exactly of these paths;  *)
(* "" is Path("") = "." (a directory), every other path is absent.         *)
(***************************************************************************)
Files == {"model.pt", "tokens.txt", "tokens_dup.txt", "tokens_bad.txt",
          "tokens_nan.txt", "tokens_long.txt", "bpe.model", "LG.pt", "a.wav",
          "b.wav", "x.txt"}

is_file(p) == p \in Files

\* the longest decimal literal int() converts, in digits: the interpreter's
\* default of sys.get_int_max_str_digits(), which the script leaves alone
IntMaxStrDigits == 4300

\* the lines of the token tables (line.strip().split() is applied to each)
FileLines(p) ==
  \* "A 1", " B\x0b 2 ", "S 1_0"
  CASE p = "tokens.txt"     -> << <<65, 32, 49>>, <<32, 66, 11, 32, 50, 32>>, <<83, 32, 49, 95, 48>> >>
  \* "A 1", "A 2"
    [] p = "tokens_dup.txt" -> << <<65, 32, 49>>, <<65, 32, 50>> >>
  \* "A 1", "B"
    [] p = "tokens_bad.txt" -> << <<65, 32, 49>>, <<66>> >>
  \* "A 1", "B x"
    [] p = "tokens_nan.txt" -> << <<65, 32, 49>>, <<66, 32, 120>> >>
  \* "A 1", "B 11...1" with one digit more than int() converts
    [] p = "tokens_long.txt" ->
         << <<65, 32, 49>>,
            <<66, 32>> \o [i \in 1..(IntMaxStrDigits + 1) |-> 49] >>
    [] OTHER                -> << >>

\* what torchaudio.load returns for a sound file: [rate, channels], or
\* no wave at all for a file whose format it cannot read
Wave(p) ==
  CASE p = "a.wav" -> [ok |-> TRUE,  rate |-> 16000, channels |-> <<"a0", "a1">>]
    [] p = "b.wav" -> [ok |-> TRUE,  rate |-> 8000,  channels |-> <<"b0">>]
    [] OTHER       -> [ok |-> FALSE, rate |-> 0,     channels |-> << >>]

(***************************************************************************)
(* Python string operations on sequences of characters.                    *)
(***************************************************************************)
\* A character is its Unicode code point; the tables below are those of
\* Unicode 14, which CPython 3.11 carries.

\* the characters str.strip() and str.split() treat as whitespace
\* (str.isspace): TAB LF VT FF CR, FS GS RS US, SPACE, NEL, NBSP, OGHAM
\* SPACE MARK, EN QUAD .. HAIR SPACE, LINE and PARAGRAPH SEPARATOR, NARROW
\* NBSP, MEDIUM MATHEMATICAL SPACE, IDEOGRAPHIC SPACE
Whitespace ==
  (9..13) \cup (28..32) \cup {133, 160, 5760} \cup (8192..8202)
  \cup {8232, 8233, 8239, 8287, 12288}

\* str.lstrip()
RECURSIVE LStrip(_)
LStrip(s) ==
  IF s # << >> /\ Head(s) \in Whitespace THEN LStrip(Tail(s)) ELSE s

\* str.rstrip()
RECURSIVE RStrip(_)
RStrip(s) ==
  IF s # << >> /\ s[Len(s)] \in Whitespace
    THEN RStrip(SubSeq(s, 1, Len(s) - 1))
    ELSE s

\* str.strip()
Strip(s) == RStrip(LStrip(s))

\* str.upper(), characters with a one-character upper case: <<lo, hi, step,
\* delta>> maps lo, lo+step, .., hi to themselves plus delta
UpperRanges ==
  {
   <<97, 122, 1, -32>>, <<181, 181, 1, 743>>, <<224, 246, 1, -32>>, <<248,
   254, 1, -32>>, <<255, 255, 1, 121>>, <<257, 303, 2, -1>>, <<305, 305,
   1, -232>>, <<307, 311, 2, -1>>, <<314, 328, 2, -1>>, <<331, 375, 2,
   -1>>, <<378, 382, 2, -1>>, <<383, 383, 1, -300>>, <<384, 384, 1, 195>>,
   <<387, 389, 2, -1>>, <<392, 392, 1, -1>>, <<396, 396, 1, -1>>, <<402,
   402, 1, -1>>, <<405, 405, 1, 97>>, <<409, 409, 1, -1>>, <<410, 410, 1,
   163>>, <<414, 414, 1, 130>>, <<417, 421, 2, -1>>, <<424, 424, 1, -1>>,
   <<429, 429, 1, -1>>, <<432, 432, 1, -1>>, <<436, 438, 2, -1>>, <<441,
   441, 1, -1>>, <<445, 445, 1, -1>>, <<447, 447, 1, 56>>, <<453, 453, 1,
   -1>>, <<454, 454, 1, -2>>, <<456, 456, 1, -1>>, <<457, 457, 1, -2>>,
   <<459, 459, 1, -1>>, <<460, 460, 1, -2>>, <<462, 476, 2, -1>>, <<477,
   477, 1, -79>>, <<479, 495, 2, -1>>, <<498, 498, 1, -1>>, <<499, 499, 1,
   -2>>, <<501, 501, 1, -1>>, <<505, 543, 2, -1>>, <<547, 563, 2, -1>>,
   <<572, 572, 1, -1>>, <<575, 576, 1, 10815>>, <<578, 578, 1, -1>>,
   <<583, 591, 2, -1>>, <<592, 592, 1, 10783>>, <<593, 593, 1, 10780>>,
   <<594, 594, 1, 10782>>, <<595, 595, 1, -210>>, <<596, 596, 1, -206>>,
   <<598, 599, 1, -205>>, <<601, 601, 1, -202>>, <<603, 603, 1, -203>>,
   <<604, 604, 1, 42319>>, <<608, 608, 1, -205>>, <<609, 609, 1, 42315>>,
   <<611, 611, 1, -207>>, <<613, 613, 1, 42280>>, <<614, 614, 1, 42308>>,
   <<616, 616, 1, -209>>, <<617, 617, 1, -211>>, <<618, 618, 1, 42308>>,
   <<619, 619, 1, 10743>>, <<620, 620, 1, 42305>>, <<623, 623, 1, -211>>,
   <<625, 625, 1, 10749>>, <<626, 626, 1, -213>>, <<629, 629, 1, -214>>,
   <<637, 637, 1, 10727>>, <<640, 640, 1, -218>>, <<642, 642, 1, 42307>>,
   <<643, 643, 1, -218>>, <<647, 647, 1, 42282>>, <<648, 648, 1, -218>>,
   <<649, 649, 1, -69>>, <<650, 651, 1, -217>>, <<652, 652, 1, -71>>,
   <<658, 658, 1, -219>>, <<669, 669, 1, 42261>>, <<670, 670, 1, 42258>>,
   <<837, 837, 1, 84>>, <<881, 883, 2, -1>>, <<887, 887, 1, -1>>, <<891,
   893, 1, 130>>, <<940, 940, 1, -38>>, <<941, 943, 1, -37>>, <<945, 961,
   1, -32>>, <<962, 962, 1, -31>>, <<963, 971, 1, -32>>, <<972, 972, 1,
   -64>>, <<973, 974, 1, -63>>, <<976, 976, 1, -62>>, <<977, 977, 1,
   -57>>, <<981, 981, 1, -47>>, <<982, 982, 1, -54>>, <<983, 983, 1, -8>>,
   <<985, 1007, 2, -1>>, <<1008, 1008, 1, -86>>, <<1009, 1009, 1, -80>>,
   <<1010, 1010, 1, 7>>, <<1011, 1011, 1, -116>>, <<1013, 1013, 1, -96>>,
   <<1016, 1016, 1, -1>>, <<1019, 1019, 1, -1>>, <<1072, 1103, 1, -32>>,
   <<1104, 1119, 1, -80>>, <<1121, 1153, 2, -1>>, <<1163, 1215, 2, -1>>,
   <<1218, 1230, 2, -1>>, <<1231, 1231, 1, -15>>, <<1233, 1327, 2, -1>>,
   <<1377, 1414, 1, -48>>, <<4304, 4346, 1, 3008>>, <<4349, 4351, 1,
   3008>>, <<5112, 5117, 1, -8>>, <<7296, 7296, 1, -6254>>, <<7297, 7297,
   1, -6253>>, <<7298, 7298, 1, -6244>>, <<7299, 7300, 1, -6242>>, <<7301,
   7301, 1, -6243>>, <<7302, 7302, 1, -6236>>, <<7303, 7303, 1, -6181>>,
   <<7304, 7304, 1, 35266>>, <<7545, 7545, 1, 35332>>, <<7549, 7549, 1,
   3814>>, <<7566, 7566, 1, 35384>>, <<7681, 7829, 2, -1>>, <<7835, 7835,
   1, -59>>, <<7841, 7935, 2, -1>>, <<7936, 7943, 1, 8>>, <<7952, 7957, 1,
   8>>, <<7968, 7975, 1, 8>>, <<7984, 7991, 1, 8>>, <<8000, 8005, 1, 8>>,
   <<8017, 8023, 2, 8>>, <<8032, 8039, 1, 8>>, <<8048, 8049, 1, 74>>,
   <<8050, 8053, 1, 86>>, <<8054, 8055, 1, 100>>, <<8056, 8057, 1, 128>>,
   <<8058, 8059, 1, 112>>, <<8060, 8061, 1, 126>>, <<8112, 8113, 1, 8>>,
   <<8126, 8126, 1, -7205>>, <<8144, 8145, 1, 8>>, <<8160, 8161, 1, 8>>,
   <<8165, 8165, 1, 7>>, <<8526, 8526, 1, -28>>, <<8560, 8575, 1, -16>>,
   <<8580, 8580, 1, -1>>, <<9424, 9449, 1, -26>>, <<11312, 11359, 1,
   -48>>, <<11361, 11361, 1, -1>>, <<11365, 11365, 1, -10795>>, <<11366,
   11366, 1, -10792>>, <<11368, 11372, 2, -1>>, <<11379, 11379, 1, -1>>,
   <<11382, 11382, 1, -1>>, <<11393, 11491, 2, -1>>, <<11500, 11502, 2,
   -1>>, <<11507, 11507, 1, -1>>, <<11520, 11557, 1, -7264>>, <<11559,
   11559, 1, -7264>>, <<11565, 11565, 1, -7264>>, <<42561, 42605, 2, -1>>,
   <<42625, 42651, 2, -1>>, <<42787, 42799, 2, -1>>, <<42803, 42863, 2,
   -1>>, <<42874, 42876, 2, -1>>, <<42879, 42887, 2, -1>>, <<42892, 42892,
   1, -1>>, <<42897, 42899, 2, -1>>, <<42900, 42900, 1, 48>>, <<42903,
   42921, 2, -1>>, <<42933, 42947, 2, -1>>, <<42952, 42954, 2, -1>>,
   <<42961, 42961, 1, -1>>, <<42967, 42969, 2, -1>>, <<42998, 42998, 1,
   -1>>, <<43859, 43859, 1, -928>>, <<43888, 43967, 1, -38864>>, <<65345,
   65370, 1, -32>>, <<66600, 66639, 1, -40>>, <<66776, 66811, 1, -40>>,
   <<66967, 67003, 2, -39>>, <<66968, 66976, 2, -39>>, <<66980, 66992, 2,
   -39>>, <<66996, 67000, 2, -39>>, <<67004, 67004, 1, -39>>, <<68800,
   68850, 1, -64>>, <<71872, 71903, 1, -32>>, <<93792, 93823, 1, -32>>,
   <<125218, 125251, 1, -34>>
  }

\* str.upper(), characters whose upper case is several characters
\* (223 is LATIN SMALL LETTER SHARP S, upper case "SS")
UpperSpecial ==
  {
   <<223, <<83, 83>>>>, <<329, <<700, 78>>>>, <<496, <<74, 780>>>>, <<912,
   <<921, 776, 769>>>>, <<944, <<933, 776, 769>>>>, <<1415, <<1333,
   1362>>>>, <<7830, <<72, 817>>>>, <<7831, <<84, 776>>>>, <<7832, <<87,
   778>>>>, <<7833, <<89, 778>>>>, <<7834, <<65, 702>>>>, <<8016, <<933,
   787>>>>, <<8018, <<933, 787, 768>>>>, <<8020, <<933, 787, 769>>>>,
   <<8022, <<933, 787, 834>>>>, <<8064, <<7944, 921>>>>, <<8065, <<7945,
   921>>>>, <<8066, <<7946, 921>>>>, <<8067, <<7947, 921>>>>, <<8068,
   <<7948, 921>>>>, <<8069, <<7949, 921>>>>, <<8070, <<7950, 921>>>>,
   <<8071, <<7951, 921>>>>, <<8072, <<7944, 921>>>>, <<8073, <<7945,
   921>>>>, <<8074, <<7946, 921>>>>, <<8075, <<7947, 921>>>>, <<8076,
   <<7948, 921>>>>, <<8077, <<7949, 921>>>>, <<8078, <<7950, 921>>>>,
   <<8079, <<7951, 921>>>>, <<8080, <<7976, 921>>>>, <<8081, <<7977,
   921>>>>, <<8082, <<7978, 921>>>>, <<8083, <<7979, 921>>>>, <<8084,
   <<7980, 921>>>>, <<8085, <<7981, 921>>>>, <<8086, <<7982, 921>>>>,
   <<8087, <<7983, 921>>>>, <<8088, <<7976, 921>>>>, <<8089, <<7977,
   921>>>>, <<8090, <<7978, 921>>>>, <<8091, <<7979, 921>>>>, <<8092,
   <<7980, 921>>>>, <<8093, <<7981, 921>>>>, <<8094, <<7982, 921>>>>,
   <<8095, <<7983, 921>>>>, <<8096, <<8040, 921>>>>, <<8097, <<8041,
   921>>>>, <<8098, <<8042, 921>>>>, <<8099, <<8043, 921>>>>, <<8100,
   <<8044, 921>>>>, <<8101, <<8045, 921>>>>, <<8102, <<8046, 921>>>>,
   <<8103, <<8047, 921>>>>, <<8104, <<8040, 921>>>>, <<8105, <<8041,
   921>>>>, <<8106, <<8042, 921>>>>, <<8107, <<8043, 921>>>>, <<8108,
   <<8044, 921>>>>, <<8109, <<8045, 921>>>>, <<8110, <<8046, 921>>>>,
   <<8111, <<8047, 921>>>>, <<8114, <<8122, 921>>>>, <<8115, <<913,
   921>>>>, <<8116, <<902, 921>>>>, <<8118, <<913, 834>>>>, <<8119, <<913,
   834, 921>>>>, <<8124, <<913, 921>>>>, <<8130, <<8138, 921>>>>, <<8131,
   <<919, 921>>>>, <<8132, <<905, 921>>>>, <<8134, <<919, 834>>>>, <<8135,
   <<919, 834, 921>>>>, <<8140, <<919, 921>>>>, <<8146, <<921, 776,
   768>>>>, <<8147, <<921, 776, 769>>>>, <<8150, <<921, 834>>>>, <<8151,
   <<921, 776, 834>>>>, <<8162, <<933, 776, 768>>>>, <<8163, <<933, 776,
   769>>>>, <<8164, <<929, 787>>>>, <<8166, <<933, 834>>>>, <<8167, <<933,
   776, 834>>>>, <<8178, <<8186, 921>>>>, <<8179, <<937, 921>>>>, <<8180,
   <<911, 921>>>>, <<8182, <<937, 834>>>>, <<8183, <<937, 834, 921>>>>,
   <<8188, <<937, 921>>>>, <<64256, <<70, 70>>>>, <<64257, <<70, 73>>>>,
   <<64258, <<70, 76>>>>, <<64259, <<70, 70, 73>>>>, <<64260, <<70, 70,
   76>>>>, <<64261, <<83, 84>>>>, <<64262, <<83, 84>>>>, <<64275, <<1348,
   1350>>>>, <<64276, <<1348, 1333>>>>, <<64277, <<1348, 1339>>>>,
   <<64278, <<1358, 1350>>>>, <<64279, <<1348, 1341>>>>
  }

\* str.upper() on one character: the characters it becomes
UpperChar(c) ==
  IF c \in 97..122 THEN << c - 32 >>
  ELSE IF c < 128 THEN << c >>
  ELSE IF \E m \in UpperSpecial : m[1] = c
    THEN (CHOOSE m \in UpperSpecial : m[1] = c)[2]
  ELSE IF \E r \in UpperRanges :
            c \in r[1]..r[2] /\ (c - r[1]) % r[3] = 0
    THEN << c + (CHOOSE r \in UpperRanges :
                   c \in r[1]..r[2] /\ (c - r[1]) % r[3] = 0)[4] >>
  ELSE << c >>

\* str.upper()
RECURSIVE Upper(_)
Upper(s) ==
  IF s = << >> THEN << >> ELSE UpperChar(Head(s)) \o Upper(Tail(s))

\* str.split(sep): k separators give k+1 pieces, "" gives [""]
RECURSIVE Split(_, _)
Split(s, sep) ==
  IF \A i \in 1..Len(s) : s[i] # sep
    THEN << s >>
    ELSE LET i == CHOOSE j \in 1..Len(s) :
                    s[j] = sep /\ \A k \in 1..(j - 1) : s[k] # sep
         IN  << SubSeq(s, 1, i - 1) >> \o Split(SubSeq(s, i + 1, Len(s)), sep)

\* str.split(): runs of whitespace separate, no empty piece
RECURSIVE SplitWS(_)
SplitWS(s) ==
  LET t == LStrip(s) IN
  IF t = << >>
    THEN << >>
    ELSE LET n == IF \A i \in 1..Len(t) : t[i] \notin Whitespace
                    THEN Len(t)
                    ELSE (CHOOSE j \in 1..Len(t) :
                            t[j] \in Whitespace
                            /\ \A k \in 1..(j - 1) : t[k] \notin Whitespace) - 1
         IN  << SubSeq(t, 1, n) >> \o SplitWS(SubSeq(t, n + 1, Len(t)))

\* sub in s
Contains(sub, s) ==
  \E i \in 0..(Len(s) - Len(sub)) : SubSeq(s, i + 1, i + Len(sub)) = sub

\* the digit zero of every run of ten decimal digits (category Nd)
DigitZeros ==
  {
   48, 1632, 1776, 1984, 2406, 2534, 2662, 2790, 2918, 3046, 3174, 3302,
   3430, 3558, 3664, 3792, 3872, 4160, 4240, 6112, 6160, 6470, 6608, 6784,
   6800, 6992, 7088, 7232, 7248, 42528, 43216, 43264, 43472, 43504, 43600,
   44016, 65296, 66720, 68912, 69734, 69872, 69942, 70096, 70384, 70736,
   70864, 71248, 71360, 71472, 71904, 72016, 72784, 73040, 73120, 92768,
   92864, 93008, 120782, 120792, 120802, 120812, 120822, 123200, 123632,
   125264, 130032
  }

\* the decimal digits int() reads
Digits == UNION {z..(z + 9) : z \in DigitZeros}

DigitVal(c) == c - (CHOOSE z \in DigitZeros : c \in z..(z + 9))

\* the digits of a literal, its underscores (95) left out
WithoutUnderscores(s) == SelectSeq(s, LAMBDA c : c # 95)

\* the value of a string of decimal digits
RECURSIVE ParseDigits(_)
ParseDigits(s) ==
  IF s = << >> THEN 0
  ELSE ParseDigits(SubSeq(s, 1, Len(s) - 1)) * 10 + DigitVal(s[Len(s)])

\* digits, with single underscores allowed between two digits
IsDigits(s) ==
  /\ s # << >>
  /\ \A i \in 1..Len(s) : s[i] \in Digits \/ s[i] = 95
  /\ s[1] # 95 /\ s[Len(s)] # 95
  /\ \A i \in 1..(Len(s) - 1) : ~(s[i] = 95 /\ s[i + 1] = 95)

\* int(s): surrounding whitespace dropped, an optional sign (43 +, 45 -),
\* then the digits
ParseInt(s) ==
  LET t == Strip(s) IN
  IF Head(t) = 45 THEN 0 - ParseDigits(WithoutUnderscores(Tail(t)))
  ELSE IF Head(t) = 43 THEN ParseDigits(WithoutUnderscores(Tail(t)))
  ELSE ParseDigits(WithoutUnderscores(t))

\* int(s) raises ValueError on anything else, and on a literal of more
\* than IntMaxStrDigits digits (leading zeros count; the sign, the
\* underscores and the surrounding whitespace do not)
IsInt(s) ==
  LET t == Strip(s)
      d == IF Head(t) \in {43, 45} THEN Tail(t) ELSE t
  IN  /\ t # << >>
      /\ IsDigits(d)
      /\ Len(WithoutUnderscores(d)) <= IntMaxStrDigits

(***************************************************************************)
(* Errors.  kind is the error of the taxonomy, what the offending option.  *)
(***************************************************************************)
NoErr == [kind |-> "none", what |-> ""]

Error(k, w) == [kind |-> k, what |-> w]

(***************************************************************************)
(* check_args                                                              *)
(***************************************************************************)
DecodingMethods == {"greedy_search", "modified_beam_search", "fast_beam_search"}

\* the modeling units the --modeling-unit help names
UnitChar == <<99, 104, 97, 114>>

UnitBpe == <<98, 112, 101>>

UnitBpeChar == <<98, 112, 101, 43, 99, 104, 97, 114>>

\* "bpe" in args.modeling_unit
HasBpe(unit) == Contains(UnitBpe, unit)

\* the sound-file loop of check_args: the first path that is no file
FirstMissing(fs) ==
  IF \A i \in 1..Len(fs) : is_file(fs[i])
    THEN 0
    ELSE CHOOSE i \in 1..Len(fs) :
           ~is_file(fs[i]) /\ \A k \in 1..(i - 1) : is_file(fs[k])

\* lines 318-322: the model and the token table; Path(None) raises TypeError
check_model_files(a) ==
  IF a.nn_model = NoneVal THEN Error("TypeError", "nn_model")
  ELSE IF ~is_file(a.nn_model) THEN Error("MissingFile", "nn_model")
  ELSE IF a.tokens = NoneVal THEN Error("TypeError", "tokens")
  ELSE IF ~is_file(a.tokens) THEN Error("MissingFile", "tokens")
  ELSE NoErr

\* an omitted --decoding-method let through
check_decoding_method_none_passes(a) ==
  IF a.decoding_method # NoneVal /\ a.decoding_method \notin DecodingMethods
    THEN Error("UnsupportedMethod", "decoding_method")
    ELSE NoErr

\* lines 324-329
check_decoding_method(a) ==
  IF a.decoding_method \notin DecodingMethods
    THEN Error("UnsupportedMethod", "decoding_method")
    ELSE NoErr

\* the method assertion of line 332 left out
check_contexts_any_method(a) ==
  IF Strip(a.contexts) # << >> /\ HasBpe(a.modeling_unit) /\ ~is_file(a.bpe_model)
    THEN Error("MissingFile", "bpe_model")
    ELSE NoErr

\* lines 331-338
check_contexts(a) ==
  IF Strip(a.contexts) # << >>
    THEN IF a.decoding_method # "modified_beam_search"
           THEN Error("IncompatibleOption", "contexts")
         ELSE IF HasBpe(a.modeling_unit) /\ ~is_file(a.bpe_model)
           THEN Error("MissingFile", "bpe_model")
         ELSE NoErr
    ELSE NoErr

\* lines 340-342
check_modified_beam_search(a) ==
  IF a.decoding_method = "modified_beam_search"
    THEN IF ~(a.num_active_paths > 0)
           THEN Error("InvalidValue", "num_active_paths")
         ELSE IF ~(a.temperature > 0)
           THEN Error("InvalidValue", "temperature")
         ELSE NoErr
    ELSE NoErr

\* lines 344-346
check_LG(a) ==
  IF a.decoding_method = "fast_beam_search" /\ a.LG # "" /\ ~is_file(a.LG)
    THEN Error("MissingFile", "LG")
    ELSE NoErr

\* lines 348-351
check_sound_files(a) ==
  IF ~(Len(a.sound_files) > 0) THEN Error("InvalidValue", "sound_files")
  ELSE IF FirstMissing(a.sound_files) # 0 THEN Error("MissingFile", "sound_files")
  ELSE NoErr

\* the first exception raised by a sequence of checks
RECURSIVE FirstError(_)
FirstError(rs) ==
  IF rs = << >> THEN NoErr
  ELSE IF Head(rs) # NoErr THEN Head(rs)
  ELSE FirstError(Tail(rs))

\* the optional LG file checked with the other files, ahead of the method
check_args_LG_with_files(a) ==
  FirstError(<<check_model_files(a),
               IF a.LG # "" /\ ~is_file(a.LG)
                 THEN Error("MissingFile", "LG") ELSE NoErr,
               check_decoding_method(a), check_contexts(a),
               check_modified_beam_search(a), check_sound_files(a)>>)

check_args(a) ==
  FirstError(<<check_model_files(a), check_decoding_method(a),
               check_contexts(a), check_modified_beam_search(a),
               check_LG(a), check_sound_files(a)>>)

(***************************************************************************)
(* read_sound_files                                                        *)
(***************************************************************************)
\* index of the first file torchaudio.load cannot read, 0 if none
FirstUnreadable(fs) ==
  IF \A i \in 1..Len(fs) : Wave(fs[i]).ok
    THEN 0
    ELSE CHOOSE i \in 1..Len(fs) :
           ~Wave(fs[i]).ok /\ \A k \in 1..(i - 1) : Wave(fs[k]).ok

\* one loop iteration: resample when the rates differ, keep channel 0.
\* utt is the position of the tensor in the returned list.
Utterance(fs, i, expected_sample_rate) ==
  [utt       |-> i,
   data      |-> Wave(fs[i]).channels[1],
   resampled |-> Wave(fs[i]).rate # expected_sample_rate]

\* each tensor inserted at the front of ans instead of appended
read_sound_files_prepending(filenames, expected_sample_rate) ==
  LET bad == FirstUnreadable(filenames) IN
  IF bad # 0
    THEN [err    |-> Error("AudioError", filenames[bad]),
          opened |-> SubSeq(filenames, 1, bad),
          ans    |-> << >>]
    ELSE [err    |-> NoErr,
          opened |-> filenames,
          ans    |-> [i \in 1..Len(filenames) |->
                        Utterance(filenames, Len(filenames) + 1 - i,
                                  expected_sample_rate)]]

\* the whole function: the files opened, and the list returned or the
\* error torchaudio.load raised
read_sound_files(filenames, expected_sample_rate) ==
  LET bad == FirstUnreadable(filenames) IN
  IF bad # 0
    THEN [err    |-> Error("AudioError", filenames[bad]),
          opened |-> SubSeq(filenames, 1, bad),
          ans    |-> << >>]
    ELSE [err    |-> NoErr,
          opened |-> filenames,
          ans    |-> [i \in 1..Len(filenames) |->
                        Utterance(filenames, i, expected_sample_rate)]]

(***************************************************************************)
(* The bias phrases of main, and encode_contexts                           *)
(***************************************************************************)
\* [x.strip().upper() for x in args.contexts.split("/") if x.strip()]
StrippedPieces(s) ==
  SelectSeq(Split(s, 47), LAMBDA x : Strip(x) # << >>)

\* x.upper() kept in place of x.strip().upper()
PhrasesUntrimmed(s) ==
  LET kept == StrippedPieces(s) IN
  [i \in 1..Len(kept) |-> Upper(kept[i])]

Phrases(s) ==
  LET kept == StrippedPieces(s) IN
  [i \in 1..Len(kept) |-> Upper(Strip(kept[i]))]

\* the loop over the lines of the token table: the dict built, or the
\* first assertion that fails
RECURSIVE LoadTokens(_, _)
LoadTokens(lines, table) ==
  IF lines = << >>
    THEN [err |-> NoErr, table |-> table]
    ELSE LET toks == SplitWS(Strip(Head(lines))) IN
         IF Len(toks) # 2
           THEN [err |-> Error("MalformedVocabLine", "tokens"), table |-> table]
         ELSE IF \E e \in table : e.tok = toks[1]
           THEN [err |-> Error("DuplicateVocabEntry", "tokens"), table |-> table]
         ELSE IF ~IsInt(toks[2])
           THEN [err |-> Error("ValueError", "tokens"), table |-> table]
         ELSE LoadTokens(Tail(lines),
                         table \cup {[tok |-> toks[1], id |-> ParseInt(toks[2])]})

HasToken(table, tok) == \E e \in table : e.tok = tok

TokenId(table, tok) == (CHOOSE e \in table : e.tok = tok).id

\* sherpa.encode_contexts: one vocabulary id per unit of the phrase, under
\* the scheme the modeling unit names.  sp is the subword tokenizer or
\* None (FALSE).  The subword model is the character-level one: its pieces
\* are the single characters, so the char fallback of bpe+char tokenizes a
\* missing piece into the same, missing, character.
sherpa_encode_contexts(modeling_unit, ctxs, sp, tokens_table) ==
  IF modeling_unit \notin {UnitChar, UnitBpe, UnitBpeChar}
       \/ (modeling_unit # UnitChar /\ ~sp)
    THEN [err |-> Error("UnsupportedModelingUnit", "modeling_unit"),
          list |-> << >>]
  ELSE IF \E i \in 1..Len(ctxs) : \E j \in 1..Len(ctxs[i]) :
            ~HasToken(tokens_table, << ctxs[i][j] >>)
    THEN [err |-> Error("UnknownToken", "contexts"), list |-> << >>]
    ELSE [err  |-> NoErr,
          list |-> [i \in 1..Len(ctxs) |->
                     [j \in 1..Len(ctxs[i]) |->
                        TokenId(tokens_table, << ctxs[i][j] >>)]]]

\* lines 382-398.  sp_loads is the outcome of sp.load(args.bpe_model):
\* the processor is loaded, or the call raises
encode_contexts(a, ctxs, sp_loads) ==
  IF HasBpe(a.modeling_unit) /\ ~sp_loads
    THEN [err |-> Error("SubwordModelError", "bpe_model"), list |-> << >>]
    ELSE LET sp == HasBpe(a.modeling_unit)
             t  == LoadTokens(FileLines(a.tokens), {})
         IN  IF t.err # NoErr
               THEN [err |-> t.err, list |-> << >>]
               ELSE sherpa_encode_contexts(a.modeling_unit, ctxs, sp, t.table)

(***************************************************************************)
(* Streams and the engine                                                  *)
(***************************************************************************)
NoResult == [of |-> << >>, biased |-> FALSE, ready |-> FALSE]

\* recognizer.create_stream(contexts_list=...) or recognizer.create_stream()
create_stream(ctx_list) ==
  [ctx      |-> IF ctx_list # << >>
                  THEN [given |-> TRUE,  list |-> ctx_list]
                  ELSE [given |-> FALSE, list |-> << >>],
   accepted |-> << >>,
   result   |-> NoResult]

\* stream.accept_samples(s)
accept_samples(stream, s) ==
  [stream EXCEPT !.accepted = Append(@, s)]

\* the transcript the engine attaches to a stream: a function of the
\* samples the stream was fed and of its context list
Transcript(stream) ==
  [of     |-> [k \in 1..Len(stream.accepted) |-> stream.accepted[k].data],
   biased |-> stream.ctx.given,
   ready  |-> TRUE]

\* decode_streams fills the results in place, visiting the streams in the
\* engine's internal order
RECURSIVE FillResults(_, _)
FillResults(ss, order) ==
  IF order = << >>
    THEN ss
    ELSE FillResults([ss EXCEPT ![Head(order)].result = Transcript(ss[Head(order)])],
                     Tail(order))

Orders(n) ==
  {o \in [1..n -> 1..n] : \A i, j \in 1..n : o[i] = o[j] => i = j}

(***************************************************************************)
(* Initial states: the parsed command line.                                *)
(***************************************************************************)
\* "/", " ", VT, "a", "B", sharp s
Alphabet == {47, 32, 11, 97, 66, 223}

Strings(n) == UNION {[1..k -> Alphabet] : k \in 0..n}

\* the example of the --contexts help text
HelpContexts ==
  \* "HELLO WORLD/I LOVE YOU/GO AWAY"
  <<72, 69, 76, 76, 79, 32, 87, 79, 82, 76, 68, 47,
    73, 32, 76, 79, 86, 69, 32, 89, 79, 85, 47,
    71, 79, 32, 65, 87, 65, 89>>

SoundPaths == {"a.wav", "b.wav", "x.txt", "m.wav"}

\* nargs="+": at least one positional argument
SoundFileLists(n) == UNION {[1..k -> SoundPaths] : k \in 1..n}

Args(nn, tk, dm, cx, mu, bm, np, tp, lg, sf) ==
  [nn_model |-> nn, tokens |-> tk, decoding_method |-> dm, contexts |-> cx,
   modeling_unit |-> mu, bpe_model |-> bm, num_active_paths |-> np,
   temperature |-> tp, LG |-> lg, sound_files |-> sf, sample_rate |-> 16000]

\* every option that check_args reads, over present and absent values
ValidationArgs ==
  {Args(nn, tk, dm, cx, mu, bm, np, tp, lg, sf) :
     nn \in {NoneVal, "nomodel.pt", "model.pt"},
     tk \in {NoneVal, "notokens.txt", "tokens.txt"},
     dm \in DecodingMethods \cup {NoneVal, "ctc_greedy_search"},
     \* "", " ", VT, "/", "a"
     cx \in {<< >>, <<32>>, <<11>>, <<47>>, <<97>>},
     \* char, bpe, bbpe
     mu \in {UnitChar, UnitBpe, <<98, 98, 112, 101>>},
     bm \in {"", "nobpe.model", "bpe.model"},
     np \in {0, 4},
     tp \in {0, 1},
     lg \in {"", "noLG.pt", "LG.pt"},
     sf \in {<<"a.wav">>, <<"a.wav", "m.wav">>}}

\* every --contexts string up to MaxCtxLen
ContextArgs ==
  {Args("model.pt", "tokens.txt", dm, cx, mu, "bpe.model", 4, 1, "", <<"a.wav">>) :
     dm \in {"modified_beam_search", "greedy_search"},
     cx \in Strings(MaxCtxLen) \cup {HelpContexts},
     \* char, bpe, bpe+char, phone
     mu \in {UnitChar, UnitBpe, UnitBpeChar, <<112, 104, 111, 110, 101>>}}

\* every token table
VocabularyArgs ==
  {Args("model.pt", tk, "modified_beam_search", cx, mu, "bpe.model", 4, 1, "",
        <<"a.wav">>) :
     tk \in {"tokens.txt", "tokens_dup.txt", "tokens_bad.txt", "tokens_nan.txt",
             "tokens_long.txt"},
     \* "a", "a/B", "s", "x", sharp s
     cx \in {<<97>>, <<97, 47, 66>>, <<115>>, <<120>>, <<223>>},
     mu \in {UnitChar, UnitBpe, UnitBpeChar}}

\* every list of up to MaxFiles sound files
BatchArgs ==
  {Args("model.pt", tk, dm, cx, UnitChar, "", 4, 1, "", sf) :
     tk \in {"tokens.txt", "tokens_dup.txt"},
     dm \in DecodingMethods,
     \* "", "a", "a/ "
     cx \in {<< >>, <<97>>, <<97, 47, 32>>},
     sf \in SoundFileLists(MaxFiles)}

Init ==
  /\ args \in ValidationArgs \cup ContextArgs \cup VocabularyArgs \cup BatchArgs
  /\ pc = "check_args"
  /\ err = NoErr
  /\ recognizer = FALSE
  /\ opened = << >>
  /\ samples = << >>
  /\ contexts = << >>
  /\ contexts_list = << >>
  /\ streams = << >>
  /\ engine_order = << >>
  /\ stdout = << >>
  /\ log = << >>

(***************************************************************************)
(* main, one action per statement; an exception ends the run.              *)
(***************************************************************************)
\* the result of check_args not acted upon
CheckArgsIgnored ==
  /\ pc = "check_args"
  /\ err' = check_args(args)
  /\ pc' = "create_recognizer"
  /\ log' = Append(log, "check_args")
  /\ UNCHANGED <<args, recognizer, opened, samples, contexts, contexts_list,
                 streams, engine_order, stdout>>

\* the recognizer built ahead of the validation
CheckArgsAfterLoad ==
  /\ pc = "check_args"
  /\ recognizer' = TRUE
  /\ err' = check_args(args)
  /\ pc' = IF check_args(args) = NoErr THEN "read_sound_files" ELSE "error"
  /\ log' = <<"create_recognizer", "check_args">>
  /\ UNCHANGED <<args, opened, samples, contexts, contexts_list, streams,
                 engine_order, stdout>>

\* line 438: check_args(args)
CheckArgs ==
  /\ pc = "check_args"
  /\ err' = check_args(args)
  /\ pc' = IF check_args(args) = NoErr THEN "create_recognizer" ELSE "error"
  /\ log' = Append(log, "check_args")
  /\ UNCHANGED <<args, recognizer, opened, samples, contexts, contexts_list,
                 streams, engine_order, stdout>>

\* line 443: recognizer = create_recognizer(args); the engine's constructor
\* either returns the recognizer or raises
CreateRecognizer ==
  /\ pc = "create_recognizer"
  /\ \E loaded \in BOOLEAN :
       /\ recognizer' = loaded
       /\ err' = IF loaded THEN NoErr ELSE Error("ModelLoadFailure", "nn_model")
       /\ pc' = IF loaded THEN "read_sound_files" ELSE "error"
  /\ log' = Append(log, "create_recognizer")
  /\ UNCHANGED <<args, opened, samples, contexts, contexts_list, streams,
                 engine_order, stdout>>

\* lines 446-449: samples = read_sound_files(args.sound_files, sample_rate)
ReadSoundFiles ==
  /\ pc = "read_sound_files"
  /\ LET r == read_sound_files(args.sound_files, args.sample_rate) IN
       /\ opened' = r.opened
       /\ samples' = r.ans
       /\ err' = r.err
       /\ pc' = IF r.err = NoErr THEN "contexts" ELSE "error"
  /\ log' = Append(log, "read_sound_files")
  /\ UNCHANGED <<args, recognizer, contexts, contexts_list, streams,
                 engine_order, stdout>>

\* the encoder run whenever --contexts is not "", phrases or not
EncodeContextsOnRawString ==
  /\ pc = "contexts"
  /\ contexts' = Phrases(args.contexts)
  /\ IF args.contexts # << >>
       THEN \E sp_loads \in BOOLEAN :
            LET r == encode_contexts(args, Phrases(args.contexts), sp_loads) IN
            /\ stdout' = Append(stdout, [kind |-> "contexts",
                                         text |-> Phrases(args.contexts)])
            /\ contexts_list' = r.list
            /\ err' = r.err
            /\ pc' = IF r.err = NoErr THEN "streams" ELSE "error"
            /\ log' = Append(log, "encode_contexts")
       ELSE /\ pc' = "streams"
            /\ UNCHANGED <<stdout, contexts_list, err, log>>
  /\ UNCHANGED <<args, recognizer, opened, samples, streams, engine_order>>

\* lines 451-457: split the phrases; print and encode them if any remains
EncodeContexts ==
  /\ pc = "contexts"
  /\ contexts' = Phrases(args.contexts)
  /\ IF Phrases(args.contexts) # << >>
       THEN \E sp_loads \in BOOLEAN :
            LET r == encode_contexts(args, Phrases(args.contexts), sp_loads) IN
            /\ stdout' = Append(stdout, [kind |-> "contexts",
                                         text |-> Phrases(args.contexts)])
            /\ contexts_list' = r.list
            /\ err' = r.err
            /\ pc' = IF r.err = NoErr THEN "streams" ELSE "error"
            /\ log' = Append(log, "encode_contexts")
       ELSE /\ pc' = "streams"
            /\ UNCHANGED <<stdout, contexts_list, err, log>>
  /\ UNCHANGED <<args, recognizer, opened, samples, streams, engine_order>>

\* every stream fed the first tensor instead of its own
CreateStreamFeedsFirst ==
  /\ pc = "streams"
  /\ Len(streams) < Len(samples)
  /\ streams' = Append(streams,
                       accept_samples(create_stream(contexts_list), samples[1]))
  /\ log' = log \o <<"create_stream", "accept_samples">>
  /\ UNCHANGED <<args, pc, err, recognizer, opened, samples, contexts,
                 contexts_list, engine_order, stdout>>

\* lines 460-466: one iteration of the loop over samples
CreateStream ==
  /\ pc = "streams"
  /\ Len(streams) < Len(samples)
  /\ streams' = Append(streams,
                       accept_samples(create_stream(contexts_list),
                                      samples[Len(streams) + 1]))
  /\ log' = log \o <<"create_stream", "accept_samples">>
  /\ UNCHANGED <<args, pc, err, recognizer, opened, samples, contexts,
                 contexts_list, engine_order, stdout>>

\* a failed decode_streams caught and the batch submitted again
DecodeStreamsRetried ==
  /\ pc = "streams"
  /\ Len(streams) = Len(samples)
  /\ \E done \in BOOLEAN, order \in Orders(Len(streams)) :
       /\ engine_order' = order
       /\ streams' = IF done THEN FillResults(streams, order) ELSE streams
       /\ err' = NoErr
       /\ pc' = IF done THEN "print" ELSE "streams"
  /\ log' = Append(log, "decode_streams")
  /\ UNCHANGED <<args, recognizer, opened, samples, contexts, contexts_list,
                 stdout>>

\* line 468: recognizer.decode_streams(streams); the engine either fills
\* every result or raises
DecodeStreams ==
  /\ pc = "streams"
  /\ Len(streams) = Len(samples)
  /\ \E done \in BOOLEAN, order \in Orders(Len(streams)) :
       /\ engine_order' = order
       /\ streams' = IF done THEN FillResults(streams, order) ELSE streams
       /\ err' = IF done THEN NoErr ELSE Error("DecodeFailure", "streams")
       /\ pc' = IF done THEN "print" ELSE "error"
  /\ log' = Append(log, "decode_streams")
  /\ UNCHANGED <<args, recognizer, opened, samples, contexts, contexts_list,
                 stdout>>

Blocks == SelectSeq(stdout, LAMBDA b : b.kind = "block")

Min(a, b) == IF a < b THEN a ELSE b

\* lines 469-470: one iteration of the loop over zip(sound_files, streams)
PrintResult ==
  /\ pc = "print"
  /\ Len(Blocks) < Min(Len(args.sound_files), Len(streams))
  /\ stdout' = Append(stdout,
                      [kind     |-> "block",
                       filename |-> args.sound_files[Len(Blocks) + 1],
                       result   |-> streams[Len(Blocks) + 1].result])
  /\ log' = Append(log, "print")
  /\ UNCHANGED <<args, pc, err, recognizer, opened, samples, contexts,
                 contexts_list, streams, engine_order>>

\* the loop of lines 469-470 is exhausted: main returns
Return ==
  /\ pc = "print"
  /\ Len(Blocks) = Min(Len(args.sound_files), Len(streams))
  /\ pc' = "done"
  /\ UNCHANGED <<args, err, recognizer, opened, samples, contexts,
                 contexts_list, streams, engine_order, stdout, log>>

Next ==
  \/ CheckArgs
  \/ CreateRecognizer
  \/ ReadSoundFiles
  \/ EncodeContexts
  \/ CreateStream
  \/ DecodeStreams
  \/ PrintResult
  \/ Return

Spec == Init /\ [][Next]_vars

(***************************************************************************)
(* Properties                                                              *)
(***************************************************************************)
\* check_args has just returned or raised: err is its outcome
Checked == log = <<"check_args">>

Called(f) == \E i \in 1..Len(log) : log[i] = f

\* the checks in the order the function makes them
CheckOrder ==
  <<"nn_model", "tokens", "decoding_method", "contexts", "bpe_model",
    "num_active_paths", "temperature", "LG", "sound_files">>

\* what it means for a configuration to violate the check on option w
Violates(a, w) ==
  CASE w = "nn_model" -> a.nn_model = NoneVal \/ a.nn_model \notin Files
    [] w = "tokens" -> a.tokens = NoneVal \/ a.tokens \notin Files
    [] w = "decoding_method" -> a.decoding_method \notin DecodingMethods
    [] w = "contexts" ->
         Strip(a.contexts) # << >> /\ a.decoding_method # "modified_beam_search"
    [] w = "bpe_model" ->
         /\ Strip(a.contexts) # << >>
         /\ \E i \in 1..(Len(a.modeling_unit) - 2) :
              /\ a.modeling_unit[i] = 98
              /\ a.modeling_unit[i + 1] = 112
              /\ a.modeling_unit[i + 2] = 101
         /\ a.bpe_model \notin Files
    [] w = "num_active_paths" ->
         a.decoding_method = "modified_beam_search" /\ a.num_active_paths <= 0
    [] w = "temperature" ->
         a.decoding_method = "modified_beam_search" /\ a.temperature <= 0
    [] w = "LG" ->
         /\ a.decoding_method = "fast_beam_search"
         /\ a.LG # ""
         /\ a.LG \notin Files
    [] w = "sound_files" ->
         a.sound_files = << >>
         \/ \E i \in 1..Len(a.sound_files) : a.sound_files[i] \notin Files
    [] OTHER -> FALSE

\* C1 as claimed: a supplied LG path that does not exist is reported as
\* MissingFile whatever else is wrong past the model and the token table
C1_LGReportedWithFiles ==
  (/\ Checked
   /\ is_file(args.nn_model) /\ is_file(args.tokens)
   /\ args.LG # "" /\ ~is_file(args.LG))
  => err = Error("MissingFile", "LG")

\* C1, amended: check_args reports the first violation in the order model
\* file, token table, decoding method, bias-phrase method, subword model,
\* active paths, temperature, LG file (fast_beam_search only), sound files;
\* it passes exactly when none of them is violated
C1_FirstViolationInCodeOrder ==
  Checked =>
    /\ (err = NoErr) <=> (\A k \in 1..Len(CheckOrder) : ~Violates(args, CheckOrder[k]))
    /\ err # NoErr =>
         \E k \in 1..Len(CheckOrder) :
           /\ err.what = CheckOrder[k]
           /\ Violates(args, CheckOrder[k])
           /\ \A j \in 1..(k - 1) : ~Violates(args, CheckOrder[j])

\* an LG error reported although a sound file is missing too
C1_Witness ==
  /\ Checked
  /\ err = Error("MissingFile", "LG")
  /\ Violates(args, "sound_files")

\* the outcome the claims about failed validation share: the run went no
\* further than check_args
StoppedByValidation ==
  /\ log \in {<< >>, <<"check_args">>}
  /\ Checked => (pc = "error" /\ err # NoErr)
  /\ ~recognizer
  /\ streams = << >>

\* C2 as claimed: any --contexts other than "" with a method other than
\* modified_beam_search fails validation
C2_NonEmptyContextsFail ==
  (args.contexts # << >> /\ args.decoding_method # "modified_beam_search")
  => StoppedByValidation

\* C2, amended: any --contexts that is not blank (not empty after trimming
\* whitespace) with a method other than modified_beam_search fails
\* validation; no recognizer is constructed and no stream created
C2_NonBlankContextsFail ==
  (Strip(args.contexts) # << >> /\ args.decoding_method # "modified_beam_search")
  => StoppedByValidation

\* --contexts "/" with greedy_search is refused as incompatible
C2_Witness ==
  /\ Checked
  /\ args.contexts = <<47>>
  /\ args.decoding_method = "greedy_search"
  /\ err = Error("IncompatibleOption", "contexts")

\* C4: when check_args fails the run has constructed no recognizer, opened
\* no audio file and created no stream, and it goes no further
C4_ValidationFailurePrecedesLoading ==
  check_args(args) # NoErr =>
    /\ ~Called("create_recognizer") /\ ~recognizer
    /\ ~Called("read_sound_files") /\ opened = << >> /\ samples = << >>
    /\ ~Called("create_stream") /\ streams = << >>
    /\ Checked => pc = "error"

\* a missing --tokens file has stopped the run
C4_Witness ==
  /\ Checked
  /\ pc = "error"
  /\ err = Error("MissingFile", "tokens")
  /\ opened = << >>

\* C6 as claimed: every decoding method outside the three is reported as
\* UnsupportedMethod
C6_AlwaysUnsupportedMethod ==
  (/\ Checked
   /\ args.nn_model # NoneVal /\ args.tokens # NoneVal
   /\ args.decoding_method \notin DecodingMethods)
  => err.kind = "UnsupportedMethod"

\* C6, amended: validation succeeds only for the three methods; any other
\* value, None included, fails validation with no recognizer constructed,
\* and the error is UnsupportedMethod when the model file and the token
\* table exist (their checks come first)
C6_OnlySupportedMethodsPass ==
  /\ (Called("check_args") /\ pc # "error" /\ check_args(args) = NoErr)
       => args.decoding_method \in DecodingMethods
  /\ Called("create_recognizer") => args.decoding_method \in DecodingMethods
  /\ args.decoding_method \notin DecodingMethods =>
       /\ StoppedByValidation
       /\ (Checked /\ args.nn_model \in Files /\ args.tokens \in Files)
            => err = Error("UnsupportedMethod", "decoding_method")

\* an omitted --decoding-method is refused
C6_Witness ==
  /\ Checked
  /\ args.decoding_method = NoneVal
  /\ err = Error("UnsupportedMethod", "decoding_method")

\* C3: the i-th block printed pairs the i-th input filename with the result
\* of the i-th stream, which was fed the first channel of the i-th file and
\* nothing else; a run that returns has printed one block per input file
C3_BlocksFollowInputOrder ==
  /\ Len(Blocks) <= Len(args.sound_files)
  /\ \A i \in 1..Len(Blocks) :
       /\ Blocks[i].filename = args.sound_files[i]
       /\ Blocks[i].result = streams[i].result
       /\ Blocks[i].result.ready
       /\ Blocks[i].result.of = << Wave(args.sound_files[i]).channels[1] >>
       /\ streams[i].accepted = << samples[i] >>
       /\ samples[i].utt = i
  /\ pc = "done" => Len(Blocks) = Len(args.sound_files)

\* three different files decoded in an internal order other than the
\* submission order, all three blocks printed
C3_Witness ==
  /\ pc = "done"
  /\ args.sound_files = <<"a.wav", "b.wav", "a.wav">>
  /\ engine_order = <<3, 1, 2>>
  /\ Len(Blocks) = 3

ConfigErrors ==
  {"MissingFile", "UnsupportedMethod", "IncompatibleOption", "InvalidValue",
   "TypeError"}

ContextErrors ==
  {"SubwordModelError", "UnknownToken", "DuplicateVocabEntry",
   "MalformedVocabLine", "ValueError", "UnsupportedModelingUnit"}

AudioErrors == {"AudioError"}

\* C5 as claimed: no run ends in a configuration, context or audio error
\* with the recognizer constructed
C5_SetupErrorsPrecedeRecognizer ==
  (pc = "error" /\ err.kind \in ConfigErrors \cup ContextErrors \cup AudioErrors)
  => ~recognizer

\* C5, amended: the errors check_args raises end the run before the
\* recognizer is constructed; the errors of the vocabulary load, of the
\* bias-phrase encoding and of the audio load are raised with the
\* recognizer already constructed
C5_OnlyValidationPrecedesRecognizer ==
  pc = "error" =>
    /\ err.kind \in ConfigErrors =>
         ~recognizer /\ ~Called("create_recognizer")
    /\ err.kind \in ContextErrors \cup AudioErrors =>
         recognizer /\ log[2] = "create_recognizer"

\* a duplicate token line met with the recognizer constructed
C5_Witness ==
  /\ pc = "error"
  /\ err.kind = "DuplicateVocabEntry"
  /\ recognizer

Count(f) == Cardinality({i \in 1..Len(log) : log[i] = f})

\* C7: when decode_streams is called, and ever after, the batch holds one
\* stream per utterance, each stream has accepted samples exactly once, the
\* samples of its own utterance, no two streams share an utterance, and no
\* accept_samples call follows decode_streams
C7_OneAcceptPerStreamBeforeDecode ==
  (Called("decode_streams") \/ (pc = "streams" /\ Len(streams) = Len(samples)))
  => /\ Len(streams) = Len(samples)
     /\ Count("accept_samples") = Len(streams)
     /\ \A i \in 1..Len(streams) :
          /\ Len(streams[i].accepted) = 1
          /\ streams[i].accepted[1] = samples[i]
     /\ \A i, j \in 1..Len(streams) :
          streams[i].accepted[1].utt = streams[j].accepted[1].utt => i = j
     /\ \A i, j \in 1..Len(log) :
          (log[i] = "decode_streams" /\ log[j] = "accept_samples") => j < i

\* a batch of three streams submitted
C7_Witness ==
  /\ Called("decode_streams")
  /\ Len(streams) = 3
  /\ Count("accept_samples") = 3

\* the state of the batch: 0 Idle, 1 StreamsCreated, 2 Decoded,
\* 3 ResultsEmitted; a batch whose decode failed stays at StreamsCreated
BatchState ==
  IF Called("decode_streams") /\ err.kind # "DecodeFailure"
    THEN IF Len(Blocks) = Len(streams) THEN 3 ELSE 2
  ELSE IF Called("decode_streams") \/ (pc = "streams" /\ Len(streams) = Len(samples))
    THEN 1
  ELSE 0

C8_AllOrNothing ==
  /\ Count("decode_streams") <= 1
  /\ err.kind = "DecodeFailure" =>
       /\ pc = "error"
       /\ Blocks = << >>
       /\ ~Called("print")
  /\ (Called("decode_streams") /\ err.kind # "DecodeFailure") =>
       \A i \in 1..Len(streams) : streams[i].result.ready
  /\ Blocks # << >> => BatchState >= 2
  /\ pc = "done" =>
       /\ BatchState = 3
       /\ Len(Blocks) = Len(streams)
       /\ \A i \in 1..Len(streams) : Blocks[i].result = streams[i].result

\* C8: the batch goes Idle, StreamsCreated, Decoded, ResultsEmitted, one
\* state at a time and never back; decode_streams is called at most once;
\* after a failed decode the run is over and no block is printed;
\* after a successful one every stream has a result and a run that returns
\* has printed every one of them
C8_SingleShotBatch ==
  /\ []C8_AllOrNothing
  /\ [][BatchState' \in {BatchState, BatchState + 1}]_vars

\* a batch of two streams aborted by a decode failure
C8_Witness ==
  /\ pc = "error"
  /\ err.kind = "DecodeFailure"
  /\ Len(streams) = 2
  /\ Count("decode_streams") = 1
  /\ stdout = << >>

Pos(f) == CHOOSE i \in 1..Len(log) : log[i] = f

\* C9 as claimed: bias phrases are encoded before any audio file is loaded
C9_EncodeBeforeAudio ==
  (Called("read_sound_files") /\ Phrases(args.contexts) # << >>)
  => (Called("encode_contexts") /\ Pos("encode_contexts") < Pos("read_sound_files"))

\* C9, amended: every run calls check_args, create_recognizer,
\* read_sound_files and then, only if a bias phrase remains after
\* splitting, encode_contexts, in that order; the encoding completes after
\* the audio is loaded and before any stream is created or decoded, and is
\* skipped entirely when no phrase remains
C9_EncodeAfterAudioBeforeStreams ==
  LET setup == <<"check_args", "create_recognizer", "read_sound_files">>
                 \o (IF Phrases(args.contexts) # << >>
                       THEN <<"encode_contexts">> ELSE << >>)
  IN  \A i \in 1..Len(log) :
        IF i <= Len(setup)
          THEN log[i] = setup[i]
          ELSE log[i] \in {"create_stream", "accept_samples", "decode_streams",
                           "print"}

\* streams created after the encoder ran as the fourth call
C9_Witness ==
  /\ Called("create_stream")
  /\ Len(log) > 4
  /\ log[3] = "read_sound_files"
  /\ log[4] = "encode_contexts"

\* the phrases of a raw string read off character by character: a phrase
\* ends at each "/" and at the end; it runs from the first to the last
\* character that is no whitespace and is dropped when there is none
EmitPhrase(out, cur) ==
  LET solid == {i \in 1..Len(cur) : cur[i] \notin Whitespace} IN
  IF solid = {}
    THEN out
    ELSE LET lo == CHOOSE i \in solid : \A k \in solid : i <= k
             hi == CHOOSE i \in solid : \A k \in solid : i >= k
         IN  Append(out, Upper([i \in 1..(hi - lo + 1) |-> cur[lo + i - 1]]))

RECURSIVE ScanPhrases(_, _, _)
ScanPhrases(s, cur, out) ==
  IF s = << >> THEN EmitPhrase(out, cur)
  ELSE IF Head(s) = 47 THEN ScanPhrases(Tail(s), << >>, EmitPhrase(out, cur))
  ELSE ScanPhrases(Tail(s), Append(cur, Head(s)), out)

RECURSIVE Join(_, _)
Join(list, sep) ==
  IF list = << >> THEN << >>
  ELSE IF Len(list) = 1 THEN list[1]
  ELSE list[1] \o <<sep>> \o Join(Tail(list), sep)

\* the statement that builds the phrase list (lines 452-454) has run
ContextsBuilt ==
  \/ pc \in {"streams", "print", "done"}
  \/ pc = "error" /\ err.kind \in ContextErrors \cup {"DecodeFailure"}

\* C10: the phrase list is the pieces of --contexts between "/", trimmed,
\* upper-cased, the blank ones dropped, in order; no phrase is empty, padded
\* with whitespace, holds a "/" or a character that has an upper case; the list is its own
\* phrase list when re-joined with "/"; the help text's example gives its
\* three phrases; the encoder is called exactly when the list is not empty,
\* and with an empty list no stream gets a context list
C10_PhraseList ==
  ContextsBuilt =>
    /\ contexts = ScanPhrases(args.contexts, << >>, << >>)
    /\ \A i \in 1..Len(contexts) :
         /\ contexts[i] # << >>
         /\ contexts[i][1] \notin Whitespace
         /\ contexts[i][Len(contexts[i])] \notin Whitespace
         /\ \A j \in 1..Len(contexts[i]) :
              /\ contexts[i][j] # 47
              /\ UpperChar(contexts[i][j]) = << contexts[i][j] >>
    /\ Phrases(Join(contexts, 47)) = contexts
    /\ args.contexts = HelpContexts =>
         \* "HELLO WORLD", "I LOVE YOU", "GO AWAY"
         contexts = << <<72, 69, 76, 76, 79, 32, 87, 79, 82, 76, 68>>,
                       <<73, 32, 76, 79, 86, 69, 32, 89, 79, 85>>,
                       <<71, 79, 32, 65, 87, 65, 89>> >>
    /\ (contexts = << >>) <=> ~Called("encode_contexts")
    /\ contexts # << >> => stdout[1] = [kind |-> "contexts", text |-> contexts]
    /\ contexts = << >> =>
         /\ contexts_list = << >>
         /\ \A i \in 1..Len(streams) : ~streams[i].ctx.given

\* a padded, lower-case phrase between separators came out trimmed and
\* upper-cased
C10_Witness ==
  /\ ContextsBuilt
  /\ args.contexts = <<47, 11, 223>>
  /\ contexts = << <<83, 83>> >>
  /\ Called("encode_contexts")

=============================================================================
